---- MODULE Spec2Model ----
(***************************************************************************)
(* Text-to-speech playback of tiexiang0-alt/Mock-Test:                     *)
(*   - the speech playback controller, src/services/geminiService.ts       *)
(*     (checkEdgeTtsAvailability, stopNativeTts, playEdgeTts,              *)
(*      playBrowserTts, playNativeTts);                                    *)
(*   - the AudioPlayer component, src/unnamed/part_000 (the text effect,   *)
(*     handlePlay and the onStart/onEnd closures it hands to the           *)
(*     controller).                                                        *)
(*                                                                         *)
(* JavaScript runs one task at a time, so an action is one task: a user    *)
(* event, or the continuation of an async function after an await, run to  *)
(* its next await.  The k-th call of playNativeTts is invocation k; its    *)
(* position is pc[k].  The browser (fetch, HTMLAudioElement,               *)
(* speechSynthesis) is the environment: each of its outcomes is an action. *)
(* A string the code searches (a voice name, a keyword) is searched as the *)
(* sequence of its characters.  Not modelled: getEdgeTtsVoices.            *)
(***************************************************************************)
EXTENDS Integers, Sequences, FiniteSets, TLC

\* Number of playNativeTts calls explored.
MaxPlays == 2

Ids == 1..MaxPlays

\* The passages the parent component may pass as props: a text with the
\* role of its speaker.
Passages == {[text |-> "passageA", role |-> "female"],
             [text |-> "passageB", role |-> "male"]}

NoRequest == [text |-> "", role |-> ""]

\* Longest voice list explored.
MaxVoices == 2

\* The values of speakerType the voice selection is explored for: the four
\* roles of geminiService.ts:162-168 and one that is none of them.
SpeakerTypes == {"female", "male", "lecturer", "duo", "narrator"}

\* Voices a browser may offer (SpeechSynthesisVoice: name and lang).
VoiceZira ==
  [name |-> "Microsoft Zira - English (United States)",
   lang |-> "en-US"]
VoiceAria ==
  [name |-> "Microsoft Aria Online (Natural)",
   lang |-> "en-US"]
VoiceDavid ==
  [name |-> "Microsoft David",
   lang |-> "en-US"]
VoiceSamantha ==
  [name |-> "Samantha",
   lang |-> "en-US"]
VoiceUkFemale ==
  [name |-> "Google UK English Female",
   lang |-> "en-GB"]
VoiceGuyFr ==
  [name |-> "GUY (Premium)",
   lang |-> "fr-FR"]

VoiceCatalog ==
  {VoiceZira, VoiceAria, VoiceDavid, VoiceSamantha, VoiceUkFemale, VoiceGuyFr}

\* undefined
NoVoice == [name |-> "", lang |-> ""]

\* the voice lists of at most MaxVoices different voices
VoiceLists ==
  {l \in UNION {[1..n -> VoiceCatalog] : n \in 0..MaxVoices} :
     \A i, j \in 1..Len(l) : i # j => l[i] # l[j]}

\* what a list was when the browser had loaded only some of its voices
EarlierLists(l) ==
  {e \in VoiceLists :
     \E keep \in SUBSET (1..Len(l)) :
       e = [n \in 1..Cardinality(keep) |->
               l[CHOOSE i \in keep : Cardinality({j \in keep : j < i}) = n - 1]]}

VARIABLES
  \* ---- AudioPlayer (src/unnamed/part_000) ----
  isPlaying,          \* useState, line 12
  hasPlayed,          \* useState, line 13
  isLoading,          \* useState, line 14
  mounted,            \* the component is mounted; after the unmount the flags
                      \* are the values last given to their setters
  text,               \* prop
  speakerType,        \* prop
  \* ---- controller globals (src/services/geminiService.ts) ----
  audioElement,       \* line 8: 0 is null, k is the Audio made by invocation k
  isEdgeTtsAvailable, \* line 9: "null", "true" or "false"
  \* ---- browser ----
  synthSupported,     \* 'speechSynthesis' in window
  utteranceThrows,    \* new SpeechSynthesisUtterance(text) throws (the
                      \* browser has speechSynthesis without the constructor)
  availableVoices,    \* line 13
  getVoices,          \* what speechSynthesis.getVoices() returns now
  laterVoices,        \* what it returns once the browser has loaded its voices
  playEvent,          \* playEvent[k]: the play event of audio[k] is queued
  healthProbes,       \* GET /health requests issued so far
  audio,              \* audio[k]: the Audio element made by invocation k:
                      \* "none", "playing" (play() was called on it),
                      \* "paused" or "over" (ended or failed)
  url,                \* url[k]: the object URL made by invocation k
  utt,                \* utt[k]: the utterance made by invocation k: "none",
                      \* "queued", "speaking", "cancelled" (its error event
                      \* is due) or "over" (its end or error event fired)
  uttReq,             \* uttReq[k]: text and role that utterance was made for
  uttVoice,           \* uttVoice[k]: the voice it was given, or NoVoice
  \* ---- invocations of playNativeTts ----
  calls,              \* how many there were
  pc,                 \* pc[k]: where invocation k is: "unused", awaiting
                      \* "probe" (GET /health), "fetch" (POST /tts and its
                      \* blob), "playWait" (audio.play()), "playAbort" (the
                      \* same, rejected by pause()), "done" (resolved) or
                      \* "rejected"; "threw" inside a step only
  req,                \* req[k]: its text and speakerType arguments
  remoteFail,         \* remoteFail[k]: how its playEdgeTts failed: "none",
                      \* "request" (fetch rejected, status not ok, blob()
                      \* rejected), "blocked", "abort" or "decode"
  log                 \* log[k]: the calls of its onStart and onEnd, in order

vars == <<isPlaying, hasPlayed, isLoading, mounted, text, speakerType,
          audioElement, isEdgeTtsAvailable, synthSupported, utteranceThrows,
          availableVoices, getVoices, laterVoices, playEvent,
          healthProbes, audio, url, utt, uttReq, uttVoice, calls, pc, req,
          remoteFail, log>>

\* The whole state as a record: the code's functions are operators from
\* state to state, so that a handler calling several of them composes them.
State ==
  [isPlaying |-> isPlaying, hasPlayed |-> hasPlayed, isLoading |-> isLoading,
   text |-> text, speakerType |-> speakerType, audioElement |-> audioElement,
   isEdgeTtsAvailable |-> isEdgeTtsAvailable, synthSupported |-> synthSupported,
   utteranceThrows |-> utteranceThrows, availableVoices |-> availableVoices,
   mounted |-> mounted, getVoices |-> getVoices, laterVoices |-> laterVoices,
   playEvent |-> playEvent,
   healthProbes |-> healthProbes, audio |-> audio, url |-> url, utt |-> utt,
   uttReq |-> uttReq, uttVoice |-> uttVoice, calls |-> calls, pc |-> pc,
   req |-> req,
   remoteFail |-> remoteFail, log |-> log]

Becomes(s) ==
  /\ isPlaying' = s.isPlaying
  /\ hasPlayed' = s.hasPlayed
  /\ isLoading' = s.isLoading
  /\ text' = s.text
  /\ speakerType' = s.speakerType
  /\ audioElement' = s.audioElement
  /\ isEdgeTtsAvailable' = s.isEdgeTtsAvailable
  /\ synthSupported' = s.synthSupported
  /\ utteranceThrows' = s.utteranceThrows
  /\ availableVoices' = s.availableVoices
  /\ mounted' = s.mounted
  /\ getVoices' = s.getVoices
  /\ laterVoices' = s.laterVoices
  /\ playEvent' = s.playEvent
  /\ healthProbes' = s.healthProbes
  /\ audio' = s.audio
  /\ url' = s.url
  /\ utt' = s.utt
  /\ uttReq' = s.uttReq
  /\ uttVoice' = s.uttVoice
  /\ calls' = s.calls
  /\ pc' = s.pc
  /\ req' = s.req
  /\ remoteFail' = s.remoteFail
  /\ log' = s.log

\* The program after the component has mounted: the text effect has run
\* once (all flags false, stopNativeTts on an idle controller).
InitProgram ==
  /\ isPlaying = FALSE
  /\ hasPlayed = FALSE
  /\ isLoading = FALSE
  /\ mounted = TRUE
  /\ audioElement = 0
  /\ isEdgeTtsAvailable = "null"
  /\ healthProbes = 0
  /\ audio = [k \in Ids |-> "none"]
  /\ url = [k \in Ids |-> "none"]
  /\ utt = [k \in Ids |-> "none"]
  /\ uttReq = [k \in Ids |-> NoRequest]
  /\ uttVoice = [k \in Ids |-> NoVoice]
  /\ playEvent = [k \in Ids |-> FALSE]
  /\ calls = 0
  /\ pc = [k \in Ids |-> "unused"]
  /\ req = [k \in Ids |-> NoRequest]
  /\ remoteFail = [k \in Ids |-> "none"]
  /\ log = [k \in Ids |-> <<>>]

\* geminiService.ts:23-24: loadVoices() when the module is loaded
InitVoices == availableVoices = IF synthSupported THEN getVoices ELSE <<>>

\* In a browser with or without speechSynthesis, which has no voice when the
\* module is loaded and one voice later.
Init ==
  /\ InitProgram
  /\ \E p \in Passages : text = p.text /\ speakerType = p.role
  /\ synthSupported \in BOOLEAN
  /\ utteranceThrows = FALSE
  /\ getVoices = <<>>
  /\ laterVoices = <<VoiceSamantha>>
  /\ InitVoices

\* The same, and in a browser whose speechSynthesis cannot make utterances.
InitAll ==
  /\ InitProgram
  /\ \E p \in Passages : text = p.text /\ speakerType = p.role
  /\ synthSupported \in BOOLEAN
  /\ utteranceThrows \in BOOLEAN
  /\ utteranceThrows => synthSupported
  /\ getVoices = <<>>
  /\ laterVoices = <<VoiceSamantha>>
  /\ InitVoices

\* In a browser with speechSynthesis, for every voice list, every part of
\* it that is there when the module is loaded, and every speakerType.
VoiceInit ==
  /\ InitProgram
  /\ text = "passageA"
  /\ speakerType \in SpeakerTypes
  /\ synthSupported = TRUE
  /\ utteranceThrows = FALSE
  /\ laterVoices \in VoiceLists
  /\ getVoices \in EarlierLists(laterVoices)
  /\ InitVoices

----------------------------------------------------------------------------
\* The closures handlePlay passes to playNativeTts.

\* An onStart that leaves the loading flag as it is.
OnStartKeepsLoading(s, k) ==
  [s EXCEPT !.isPlaying = TRUE, !.log[k] = Append(@, "start")]

\* part_000:40-44
OnStart(s, k) ==
  [s EXCEPT !.isLoading = FALSE, !.isPlaying = TRUE,
            !.log[k] = Append(@, "start")]

\* part_000:45-50 (onAudioEnd is the parent's; a call of it is an "end" entry)
OnEnd(s, k) ==
  [s EXCEPT !.isPlaying = FALSE, !.hasPlayed = TRUE,
            !.log[k] = Append(@, "end")]

\* part_000:52-56, the catch of handlePlay
HandlePlayCatch(s) ==
  [s EXCEPT !.isLoading = FALSE, !.isPlaying = FALSE]

----------------------------------------------------------------------------
\* The controller.

\* speechSynthesis.cancel(): every utterance leaves the queue.  The Web
\* Speech API then reports an error ("canceled" or "interrupted") on it.
SynthCancel(s) ==
  [s EXCEPT !.utt = [k \in Ids |->
      IF s.utt[k] \in {"queued", "speaking"} THEN "cancelled" ELSE s.utt[k]]]

\* A stopNativeTts that pauses the element and keeps referring to it.
stopKeepsHandle(s) ==
  LET e == s.audioElement
      a == IF e # 0
           THEN [s EXCEPT !.audio[e] = IF @ = "playing" THEN "paused" ELSE @,
                          !.pc[e] = IF @ = "playWait" THEN "playAbort" ELSE @]
           ELSE s
  IN IF a.synthSupported THEN SynthCancel(a) ELSE a

\* geminiService.ts:56-68.  pause() on an element whose play() promise is
\* still pending rejects that promise (AbortError).  currentTime is not
\* modelled.
stopNativeTts(s) ==
  LET e == s.audioElement
      a == IF e # 0
           THEN [s EXCEPT !.audio[e] = IF @ = "playing" THEN "paused" ELSE @,
                          !.pc[e] = IF @ = "playWait" THEN "playAbort" ELSE @,
                          !.audioElement = 0]
           ELSE s
  IN IF a.synthSupported THEN SynthCancel(a) ELSE a

\* The characters of the strings the selection reads: the voice names and
\* the keywords.
Characters(str) ==
  CASE str = "Microsoft Zira - English (United States)" ->
         <<"M", "i", "c", "r", "o", "s", "o", "f", "t", " ", "Z", "i", "r", "a", " ", "-", " ", "E", "n", "g", "l", "i", "s", "h", " ", "(", "U", "n", "i", "t", "e", "d", " ", "S", "t", "a", "t", "e", "s", ")">>
    [] str = "Microsoft Aria Online (Natural)" ->
         <<"M", "i", "c", "r", "o", "s", "o", "f", "t", " ", "A", "r", "i", "a", " ", "O", "n", "l", "i", "n", "e", " ", "(", "N", "a", "t", "u", "r", "a", "l", ")">>
    [] str = "Microsoft David" ->
         <<"M", "i", "c", "r", "o", "s", "o", "f", "t", " ", "D", "a", "v", "i", "d">>
    [] str = "Samantha" ->
         <<"S", "a", "m", "a", "n", "t", "h", "a">>
    [] str = "Google UK English Female" ->
         <<"G", "o", "o", "g", "l", "e", " ", "U", "K", " ", "E", "n", "g", "l", "i", "s", "h", " ", "F", "e", "m", "a", "l", "e">>
    [] str = "GUY (Premium)" ->
         <<"G", "U", "Y", " ", "(", "P", "r", "e", "m", "i", "u", "m", ")">>
    [] str = "Aria" ->
         <<"A", "r", "i", "a">>
    [] str = "Natural" ->
         <<"N", "a", "t", "u", "r", "a", "l">>
    [] str = "Zira" ->
         <<"Z", "i", "r", "a">>
    [] str = "Google US English" ->
         <<"G", "o", "o", "g", "l", "e", " ", "U", "S", " ", "E", "n", "g", "l", "i", "s", "h">>
    [] str = "female" ->
         <<"f", "e", "m", "a", "l", "e">>
    [] str = "Guy" ->
         <<"G", "u", "y">>
    [] str = "David" ->
         <<"D", "a", "v", "i", "d">>
    [] str = "male" ->
         <<"m", "a", "l", "e">>
    [] str = "Christopher" ->
         <<"C", "h", "r", "i", "s", "t", "o", "p", "h", "e", "r">>
    [] str = "Roger" ->
         <<"R", "o", "g", "e", "r">>
    [] OTHER -> <<>>

\* String.prototype.toLowerCase, on the letters the names and keywords use
UpperCase == <<"A", "B", "C", "D", "E", "F", "G", "H", "I", "J", "K", "L", "M", "N", "O", "P", "Q", "R", "S", "T", "U", "V", "W", "X", "Y", "Z">>
LowerCase == <<"a", "b", "c", "d", "e", "f", "g", "h", "i", "j", "k", "l", "m", "n", "o", "p", "q", "r", "s", "t", "u", "v", "w", "x", "y", "z">>

toLowerCase(str) ==
  [n \in 1..Len(str) |->
     IF \E i \in 1..Len(UpperCase) : UpperCase[i] = str[n]
     THEN LowerCase[CHOOSE i \in 1..Len(UpperCase) : UpperCase[i] = str[n]]
     ELSE str[n]]

\* String.prototype.includes
includes(str, part) ==
  \E i \in 0..(Len(str) - Len(part)) : SubSeq(str, i + 1, i + Len(part)) = part

\* geminiService.ts:162-170: the keywords of a speakerType, in the order
\* written; none for another speakerType
Keywords(r) ==
  CASE r = "female" -> <<"Aria", "Natural", "Zira", "Google US English", "female">>
    [] r = "male" -> <<"Guy", "Natural", "David", "male">>
    [] r = "lecturer" -> <<"Guy", "Christopher", "Roger", "Natural", "male">>
    [] r = "duo" -> <<"Aria", "Natural", "Google US English">>
    [] OTHER -> <<>>

\* line 159, v.name.toLowerCase().includes(k.toLowerCase()), for every voice
\* and every keyword of a role
NameIncludes ==
  [v \in VoiceCatalog, r \in SpeakerTypes |->
     [n \in 1..Len(Keywords(r)) |->
        includes(toLowerCase(Characters(v.name)),
                 toLowerCase(Characters(Keywords(r)[n])))]]

\* line 159, the predicate of find: some keyword is in the voice's name
NameHasKeyword(v, r) ==
  \E n \in 1..Len(Keywords(r)) : NameIncludes[v, r][n]

\* lines 158-160, Array.prototype.find with that predicate and the keywords
\* of the role: the first such voice of the pool
findVoice(pool, r) ==
  LET hits == {i \in 1..Len(pool) : NameHasKeyword(pool[i], r)}
  IN IF hits = {} THEN NoVoice
     ELSE pool[CHOOSE i \in hits : \A j \in hits : i <= j]

\* A selection that searches all voices, not the en-US ones first.
SelectVoiceAmongAll(voices, r) ==
  LET found == findVoice(voices, r)
  IN IF found # NoVoice THEN found
     ELSE IF Len(voices) > 0 THEN voices[1] ELSE NoVoice

\* geminiService.ts:153-174: the voice playBrowserTts selects
SelectVoice(voices, r) ==
  LET IsUs(v) == v.lang = "en-US"
      usVoices == SelectSeq(voices, IsUs)
      pool == IF Len(usVoices) > 0 THEN usVoices ELSE voices
      found == findVoice(pool, r)
  IN IF found # NoVoice THEN found
     ELSE IF Len(pool) > 0 THEN pool[1] ELSE NoVoice

\* geminiService.ts:131-188.  Where the browser has speechSynthesis but no
\* SpeechSynthesisUtterance, line 149 throws after the cancel() of line 143:
\* pc[k] = "threw" until the caller has let the exception through.
playBrowserTts(s, k, t, r) ==
  IF ~s.synthSupported
  THEN OnEnd(s, k)
  ELSE LET \* lines 143-147
           voices == IF s.availableVoices = <<>> THEN s.getVoices
                     ELSE s.availableVoices
           a == [SynthCancel(s) EXCEPT !.availableVoices = voices]
       IN IF s.utteranceThrows
          THEN [a EXCEPT !.pc[k] = "threw"]
          ELSE [a EXCEPT !.utt[k] = "queued",
                         !.uttReq[k] = [text |-> t, role |-> r],
                         !.uttVoice[k] = SelectVoice(voices, r)]

\* geminiService.ts:205-216 and part_000:36-56: playNativeTts ends.  An
\* exception of playBrowserTts is caught nowhere in it: its promise rejects
\* and the catch of handlePlay runs; otherwise it resolves.
Settle(s, k) ==
  IF s.pc[k] = "threw"
  THEN HandlePlayCatch([s EXCEPT !.pc[k] = "rejected"])
  ELSE [s EXCEPT !.pc[k] = "done"]

\* geminiService.ts:122-125: playEdgeTts logs the error and throws it on.
playEdgeTtsThrows(s, k, why) ==
  [s EXCEPT !.remoteFail[k] = why]

\* What a playNativeTts that let the error of playEdgeTts through would do:
\* its promise rejects and the catch of handlePlay runs.
FallBackRethrows(s, k) ==
  HandlePlayCatch([s EXCEPT !.pc[k] = "rejected"])

\* geminiService.ts:208-212: the catch of playNativeTts calls playBrowserTts
\* with its own arguments, and playNativeTts returns.
FallBack(s, k) ==
  Settle(playBrowserTts(s, k, s.req[k].text, s.req[k].role), k)

\* geminiService.ts:205-215, after the await of checkEdgeTtsAvailability:
\* playEdgeTts runs to its fetch of /tts (lines 79-90), or playBrowserTts
\* runs and playNativeTts returns.
AfterProbe(s, k, useEdgeTts) ==
  IF useEdgeTts
  THEN [s EXCEPT !.pc[k] = "fetch"]
  ELSE Settle(playBrowserTts(s, k, s.req[k].text, s.req[k].role), k)

\* geminiService.ts:193-203 with checkEdgeTtsAvailability, lines 33-42: a
\* memoized answer is returned without a request (the await of an already
\* resolved promise lets no other task in), otherwise GET /health is issued.
playNativeTts(s, k, t, r) ==
  LET a == stopNativeTts(s)
      b == [a EXCEPT !.req[k] = [text |-> t, role |-> r]]
  IN IF b.isEdgeTtsAvailable = "null"
     THEN [b EXCEPT !.pc[k] = "probe", !.healthProbes = @ + 1]
     ELSE AfterProbe(b, k, b.isEdgeTtsAvailable = "true")

----------------------------------------------------------------------------
\* User events.

\* part_000:31-51: a click on play or replay.
HandlePlay ==
  /\ mounted
  /\ ~(isPlaying \/ isLoading)
  /\ calls < MaxPlays
  /\ LET k == calls + 1
         a == [State EXCEPT !.isLoading = TRUE, !.calls = k]
     IN Becomes(playNativeTts(a, k, text, speakerType))

\* part_000:23-29: the parent passes another passage.
TextChange(p) ==
  /\ mounted
  /\ p.text # text
  /\ LET a == [State EXCEPT !.text = p.text, !.speakerType = p.role,
                            !.hasPlayed = FALSE, !.isPlaying = FALSE,
                            !.isLoading = FALSE]
     IN Becomes(stopNativeTts(a))

\* part_000:17-21: the component unmounts; the cleanup calls stopNativeTts.
Unmount ==
  /\ mounted
  /\ Becomes([stopNativeTts(State) EXCEPT !.mounted = FALSE])

----------------------------------------------------------------------------
\* The voices of speechSynthesis (geminiService.ts:16-28).

\* the browser has loaded its voices
VoicesLoaded ==
  /\ getVoices # laterVoices
  /\ Becomes([State EXCEPT !.getVoices = laterVoices])

\* the voiceschanged event: loadVoices, lines 16-21
VoicesChanged ==
  /\ synthSupported
  /\ availableVoices # getVoices
  /\ Becomes([State EXCEPT !.availableVoices = getVoices])

----------------------------------------------------------------------------
\* GET /health answers (geminiService.ts:39-50).

ProbeResponse(k, ok) ==
  /\ pc[k] = "probe"
  /\ LET a == [State EXCEPT !.isEdgeTtsAvailable = IF ok THEN "true" ELSE "false"]
     IN Becomes(AfterProbe(a, k, ok))

\* timeout or network error: the catch of lines 46-50
ProbeError(k) ==
  /\ pc[k] = "probe"
  /\ LET a == [State EXCEPT !.isEdgeTtsAvailable = "false"]
     IN Becomes(AfterProbe(a, k, FALSE))

----------------------------------------------------------------------------
\* POST /tts answers (geminiService.ts:81-125).

\* fetch rejects
TtsNetworkError(k) ==
  /\ pc[k] = "fetch"
  /\ Becomes(FallBack(playEdgeTtsThrows(State, k, "request"), k))

\* lines 92-94: a response that is not ok
TtsNotOk(k) ==
  /\ pc[k] = "fetch"
  /\ Becomes(FallBack(playEdgeTtsThrows(State, k, "request"), k))

\* line 96: response.blob() rejects
TtsBlobError(k) ==
  /\ pc[k] = "fetch"
  /\ Becomes(FallBack(playEdgeTtsThrows(State, k, "request"), k))

\* lines 96-120: the payload arrives, the Audio element is made and play()
\* is called.  play() unpauses the element and queues its play event.
TtsAudioReady(k) ==
  /\ pc[k] = "fetch"
  /\ Becomes([State EXCEPT !.url[k] = "live", !.audioElement = k,
                           !.audio[k] = "playing", !.pc[k] = "playWait",
                           !.playEvent[k] = TRUE])

\* lines 102-104: the play event, also of an element paused since
PlayEvent(k) ==
  /\ playEvent[k]
  /\ Becomes(OnStart([State EXCEPT !.playEvent[k] = FALSE], k))

\* lines 96-120 where the browser does not allow play(): it rejects at once
\* (NotAllowedError), the element stays paused and no event fires.
TtsAudioBlocked(k) ==
  /\ pc[k] = "fetch"
  /\ LET a == [State EXCEPT !.url[k] = "live", !.audioElement = k,
                            !.audio[k] = "paused"]
     IN Becomes(FallBack(playEdgeTtsThrows(a, k, "blocked"), k))

\* line 120: the promise of play() resolves, playback having begun (the
\* browser fires the play event before)
PlayResolved(k) ==
  /\ pc[k] = "playWait"
  /\ audio[k] = "playing"
  /\ ~playEvent[k]
  /\ Becomes([State EXCEPT !.pc[k] = "done"])

\* line 120: the promise of play() rejects because the element was paused
PlayAborted(k) ==
  /\ pc[k] = "playAbort"
  /\ Becomes(FallBack(playEdgeTtsThrows(State, k, "abort"), k))

\* line 120: the promise of play() rejects because the element has failed
\* (NotSupportedError)
PlayRejected(k) ==
  /\ pc[k] = "playWait"
  /\ audio[k] = "over"
  /\ Becomes(FallBack(playEdgeTtsThrows(State, k, "decode"), k))

\* lines 106-110
AudioEnded(k) ==
  /\ audio[k] = "playing"
  /\ pc[k] = "done"
  /\ LET a == [State EXCEPT !.url[k] = "revoked", !.audioElement = 0,
                            !.audio[k] = "over"]
     IN Becomes(OnEnd(a, k))

\* lines 112-117: the error event of an element, playing or paused (the
\* browser fires the play event of a play() before)
AudioError(k) ==
  /\ audio[k] \in {"playing", "paused"}
  /\ ~playEvent[k]
  /\ LET a == [State EXCEPT !.url[k] = "revoked", !.audioElement = 0,
                            !.audio[k] = "over"]
     IN Becomes(OnEnd(a, k))

----------------------------------------------------------------------------
\* speechSynthesis events (geminiService.ts:180-185).

UttStart(k) ==
  /\ utt[k] = "queued"
  /\ Becomes(OnStart([State EXCEPT !.utt[k] = "speaking"], k))

UttEnd(k) ==
  /\ utt[k] = "speaking"
  /\ Becomes(OnEnd([State EXCEPT !.utt[k] = "over"], k))

\* synthesis fails, or the error event of a cancelled utterance arrives
UttError(k) ==
  /\ utt[k] \in {"queued", "speaking", "cancelled"}
  /\ Becomes(OnEnd([State EXCEPT !.utt[k] = "over"], k))

----------------------------------------------------------------------------
Next ==
  \/ HandlePlay
  \/ \E p \in Passages : TextChange(p)
  \/ Unmount
  \/ VoicesLoaded
  \/ VoicesChanged
  \/ \E k \in Ids, ok \in BOOLEAN : ProbeResponse(k, ok)
  \/ \E k \in Ids : ProbeError(k)
  \/ \E k \in Ids : TtsNetworkError(k)
  \/ \E k \in Ids : TtsNotOk(k)
  \/ \E k \in Ids : TtsBlobError(k)
  \/ \E k \in Ids : TtsAudioReady(k)
  \/ \E k \in Ids : PlayEvent(k)
  \/ \E k \in Ids : TtsAudioBlocked(k)
  \/ \E k \in Ids : PlayResolved(k)
  \/ \E k \in Ids : PlayAborted(k)
  \/ \E k \in Ids : PlayRejected(k)
  \/ \E k \in Ids : AudioEnded(k)
  \/ \E k \in Ids : AudioError(k)
  \/ \E k \in Ids : UttStart(k)
  \/ \E k \in Ids : UttEnd(k)
  \/ \E k \in Ids : UttError(k)

Spec == Init /\ [][Next]_vars

\* Every browser, the one without utterances included.
SpecAll == InitAll /\ [][Next]_vars

\* The first play action of the component.
FirstPlay == calls = 0 /\ HandlePlay

\* One play, for every voice list and speakerType.
VoiceNext ==
  \/ FirstPlay
  \/ \E p \in Passages : TextChange(p)
  \/ Unmount
  \/ VoicesLoaded
  \/ VoicesChanged
  \/ \E k \in Ids, ok \in BOOLEAN : ProbeResponse(k, ok)
  \/ \E k \in Ids : ProbeError(k)
  \/ \E k \in Ids : TtsNetworkError(k)
  \/ \E k \in Ids : TtsNotOk(k)
  \/ \E k \in Ids : TtsBlobError(k)
  \/ \E k \in Ids : TtsAudioReady(k)
  \/ \E k \in Ids : PlayEvent(k)
  \/ \E k \in Ids : TtsAudioBlocked(k)
  \/ \E k \in Ids : PlayResolved(k)
  \/ \E k \in Ids : PlayAborted(k)
  \/ \E k \in Ids : PlayRejected(k)
  \/ \E k \in Ids : AudioEnded(k)
  \/ \E k \in Ids : AudioError(k)
  \/ \E k \in Ids : UttStart(k)
  \/ \E k \in Ids : UttEnd(k)
  \/ \E k \in Ids : UttError(k)

VoiceSpec == VoiceInit /\ [][VoiceNext]_vars

----------------------------------------------------------------------------
\* Vocabulary of the properties.

\* how often callback c occurs in the log l
Count(l, c) == Cardinality({n \in 1..Len(l) : l[n] = c})

\* a "start" after an "end"
StartAfterEnd(l) ==
  \E m, n \in 1..Len(l) : m < n /\ l[m] = "end" /\ l[n] = "start"

\* playNativeTts has not returned
Outstanding(k) == pc[k] \in {"probe", "fetch", "playWait", "playAbort"}

\* the probe or the /tts request is in flight
InFlight(k) == pc[k] \in {"probe", "fetch"}

AudioPlaying == {k \in Ids : audio[k] = "playing"}
UttSpeaking == {k \in Ids : utt[k] = "speaking"}

NoPlayback == AudioPlaying = {} /\ UttSpeaking = {}

\* invocation k has gone through playBrowserTts: directly, or after its
\* remote attempt failed
LocalPathTaken(k) ==
  /\ pc[k] \in {"done", "rejected"}
  /\ audio[k] = "none" \/ remoteFail[k] # "none"

\* the least number of a non-empty set of numbers
Least(S) == CHOOSE i \in S : \A j \in S : i <= j

\* part_000:110-126: what the status bar shows
UiState ==
  IF isLoading THEN "Loading"
  ELSE IF isPlaying THEN "Speaking"
  ELSE IF hasPlayed THEN "Finished"
  ELSE "Idle"

----------------------------------------------------------------------------
\* C1: at most one playback resource is live at a time: never two Audio
\* elements playing, nor an Audio element playing while an utterance is
\* being spoken.
C1_OneLiveResource ==
  Cardinality(AudioPlaying) + Cardinality(UttSpeaking) <= 1

\* C2: once stopNativeTts has run (a passage change, or a newer play) while
\* the probe or the /tts request of an invocation is in flight, that
\* invocation starts no audio, hands no utterance to the synthesizer and
\* calls neither its onStart nor its onEnd: the controller stays idle until
\* the next play.  After a newer play calls > k; after a passage change the
\* text is no longer the one the invocation was called with.
C2_SupersededIsSilent ==
  [][\A k \in Ids :
       (InFlight(k) /\ (calls > k \/ req[k].text # text)) =>
         /\ log'[k] = log[k]
         /\ audio'[k] = audio[k]
         /\ utt'[k] = utt[k]]_vars

\* C3: an invocation calls onEnd at most once, onStart at most once, and
\* never onStart after onEnd.
C3_OneTerminalEvent ==
  \A k \in Ids :
    /\ Count(log[k], "end") <= 1
    /\ Count(log[k], "start") <= 1
    /\ ~StartAfterEnd(log[k])

\* C4: an invocation whose remote attempt failed, in whichever way, has gone
\* on to playBrowserTts with the text and role it was called with (an
\* utterance for them was handed to the synthesizer or, without a
\* synthesizer, onEnd was called), and its promise is resolved, not rejected.
C4_RemoteFailureFallsBack ==
  \A k \in Ids :
    remoteFail[k] # "none" =>
      /\ pc[k] = "done"
      /\ IF synthSupported
         THEN utt[k] # "none" /\ uttReq[k] = req[k]
         ELSE Count(log[k], "end") >= 1

\* C4 happens: the backend is memoized available, a /tts request has failed
\* and the utterance for the same request is with the synthesizer, the
\* promise resolved.
C4_Witness ==
  \E k \in Ids :
    /\ isEdgeTtsAvailable = "true"
    /\ remoteFail[k] = "request"
    /\ utt[k] = "queued"
    /\ uttReq[k] = req[k]
    /\ req[k].text \in {p.text : p \in Passages}
    /\ pc[k] = "done"

\* C5: at most one GET /health is ever issued.
C5_OneProbe == healthProbes <= 1

\* C6: when the latest play ends without ever having started (onEnd is its
\* first callback), the UI is not Loading afterwards.
C6_EndWithoutStartLeavesLoading ==
  [][\A k \in Ids :
       (k = calls /\ log[k] = <<>> /\ log'[k] = <<"end">>) => ~isLoading']_vars

\* C7: an invocation that has called nothing when a newer play is issued
\* never calls anything and never holds an Audio element or an utterance.
C7_FirstOfTwoIsDropped ==
  [][\A k \in Ids :
       (calls > k /\ log[k] = <<>>) =>
         /\ log'[k] = <<>>
         /\ audio'[k] # "playing"
         /\ utt'[k] \notin {"queued", "speaking"}]_vars

\* C8: right after a passage change no playback is active, the controller
\* holds no Audio element and isLoading, isPlaying and hasPlayed are false.
C8_TextChangeResets ==
  [][text' # text =>
       /\ ~isLoading' /\ ~isPlaying' /\ ~hasPlayed'
       /\ audioElement' = 0
       /\ NoPlayback']_vars

\* C9: a play is issued only when the UI is neither Loading nor Speaking,
\* it makes the UI Loading, and so no two plays for one passage are
\* outstanding together.
C9_OnePlayPerPassage ==
  [][/\ calls' # calls =>
          ~isLoading /\ ~isPlaying /\ isLoading' /\ calls' = calls + 1
     /\ \A j, k \in Ids :
          (j # k /\ Outstanding(j)' /\ Outstanding(k)') =>
            req'[j].text # req'[k].text]_vars

\* C10: when no playback is active, no object URL is left un-revoked.
C10_NoUrlLeak ==
  NoPlayback => \A k \in Ids : url[k] # "live"

\* C11: stopNativeTts is idempotent: in every state, a second call right
\* after a first changes nothing; after one call the controller refers to no
\* Audio element, no utterance is queued or spoken and the availability memo
\* is what it was; with no Audio element referred to and no utterance queued
\* or spoken a call changes nothing at all.
C11_StopIdempotent ==
  LET once == stopNativeTts(State)
      twice == stopNativeTts(once)
  IN /\ twice = once
     /\ once.audioElement = 0
     /\ \A k \in Ids : once.utt[k] \notin {"queued", "speaking"}
     /\ once.isEdgeTtsAvailable = isEdgeTtsAvailable
     /\ (audioElement = 0 /\ \A k \in Ids : utt[k] \notin {"queued", "speaking"})
          => once = State

\* C11 happens: stopNativeTts has paused a playing Audio element, and in
\* the state it left a further call changes nothing.
C11_Witness ==
  /\ \E k \in Ids : audio[k] = "paused" /\ remoteFail[k] = "none"
  /\ audioElement = 0
  /\ stopNativeTts(State) = State

\* playBrowserTts of invocation k hands its utterance to the synthesizer in
\* this step; availableVoices' is the list it selected from (line 153).
Speaks(k) == utt[k] = "none" /\ utt'[k] = "queued"

\* C12: the voice selected from a non-empty list contains the earliest
\* keyword of the role's list that any available voice name contains,
\* wherever the voices stand in the list.
C12_EarliestKeywordWins ==
  [][\A k \in Ids :
       Speaks(k) =>
         LET r == uttReq'[k].role
             present == {n \in 1..Len(Keywords(r)) :
                           \E i \in 1..Len(availableVoices') :
                             NameIncludes[availableVoices'[i], r][n]}
         IN present # {} =>
              /\ uttVoice'[k] # NoVoice
              /\ NameIncludes[uttVoice'[k], r][Least(present)]]_vars

\* C13 as stated: a keyword match among all available voices comes before
\* the language; without any match an en-US voice is selected; without an
\* en-US voice the first of the list.
C13_KeywordBeforeLanguage ==
  [][\A k \in Ids :
       (Speaks(k) /\ availableVoices' # <<>>) =>
         LET r == uttReq'[k].role
             all == 1..Len(availableVoices')
             v == uttVoice'[k]
         IN /\ \E i \in all : v = availableVoices'[i]
            /\ IF \E i \in all : NameHasKeyword(availableVoices'[i], r)
               THEN NameHasKeyword(v, r)
               ELSE IF \E i \in all : availableVoices'[i].lang = "en-US"
               THEN v.lang = "en-US"
               ELSE v = availableVoices'[1]]_vars

\* C13, amended: the language comes before the keywords.  The pool is the
\* en-US voices when there are any and the whole list otherwise; the voice
\* selected from a non-empty list is of the pool; it has a keyword of the
\* role in its name if any voice of the pool has, and is the first of the
\* pool if none has.  A list of one voice yields that voice.
C13_LanguageBeforeKeyword ==
  [][\A k \in Ids :
       (Speaks(k) /\ availableVoices' # <<>>) =>
         LET r == uttReq'[k].role
             all == 1..Len(availableVoices')
             us == {i \in all : availableVoices'[i].lang = "en-US"}
             pool == IF us # {} THEN us ELSE all
             v == uttVoice'[k]
         IN /\ \E i \in pool : v = availableVoices'[i]
            /\ IF \E i \in pool : NameHasKeyword(availableVoices'[i], r)
               THEN NameHasKeyword(v, r)
               ELSE v = availableVoices'[Least(pool)]
            /\ Len(availableVoices') = 1 => v = availableVoices'[1]]_vars

\* C13 happens: an utterance was just made (the list has not changed
\* since: the browser has loaded all its voices); a voice of another
\* language has a keyword of the role, no en-US voice has one, and the
\* utterance was given an en-US voice.
C13_Witness ==
  \E k \in Ids :
    /\ utt[k] = "queued"
    /\ availableVoices = getVoices
    /\ getVoices = laterVoices
    /\ \E i \in 1..Len(availableVoices) :
         /\ availableVoices[i].lang # "en-US"
         /\ NameHasKeyword(availableVoices[i], uttReq[k].role)
    /\ \A i \in 1..Len(availableVoices) :
         availableVoices[i].lang = "en-US" =>
           ~NameHasKeyword(availableVoices[i], uttReq[k].role)
    /\ \E i \in 1..Len(availableVoices) : uttVoice[k] = availableVoices[i]
    /\ uttVoice[k].lang = "en-US"

\* C14: when an invocation goes through playBrowserTts and the voice list
\* is empty (also after getVoices() was asked again, lines 145-147), it
\* gives the synthesizer no utterance and calls onEnd in that step, and on
\* the direct local path it has not called onStart.
C14_EmptyVoiceListEnds ==
  [][\A k \in Ids :
       (~LocalPathTaken(k) /\ LocalPathTaken(k)' /\ availableVoices' = <<>>) =>
         /\ utt'[k] = "none"
         /\ Len(log'[k]) = Len(log[k]) + 1
         /\ log'[k][Len(log'[k])] = "end"
         /\ remoteFail'[k] = "none" => Count(log'[k], "start") = 0]_vars

\* C15: once the availability is memoized, no further GET /health is issued
\* and the memoized value never changes.
C15_MemoIsFinal ==
  [][isEdgeTtsAvailable # "null" =>
       /\ healthProbes' = healthProbes
       /\ isEdgeTtsAvailable' = isEdgeTtsAvailable]_vars

\* C16: when playNativeTts rejects before the onStart of that invocation,
\* the UI is Idle afterwards (neither loading nor playing, and not
\* Finished), whatever it showed before.
C16_RejectionLeavesIdle ==
  [][\A k \in Ids :
       (pc'[k] = "rejected" /\ pc[k] # "rejected" /\ Count(log'[k], "start") = 0)
         => UiState' = "Idle"]_vars

\* C17: an Idle UI with hasPlayed cleared (the state a passage change
\* leaves) stays so until the next play action: no callback of an earlier
\* play makes it Speaking or Finished or calls onAudioEnd.
C17_IdleUntilNextPlay ==
  [][(UiState = "Idle" /\ calls' = calls) =>
       (UiState' = "Idle" /\ log' = log)]_vars

\* C18: the UI becomes Speaking only from Loading, becomes Finished only
\* from Speaking, and hasPlayed is set only while Speaking.
C18_TransitionTable ==
  [][/\ (UiState' = "Speaking" /\ UiState # "Speaking") => UiState = "Loading"
     /\ (UiState' = "Finished" /\ UiState # "Finished") => UiState = "Speaking"
     /\ (hasPlayed' /\ ~hasPlayed) => UiState = "Speaking"]_vars

\* C19: the utterance of the most recent play leaves the synthesizer's queue
\* only by a passage change or the unmount (stopNativeTts) or a later play,
\* never by the playBrowserTts of an earlier invocation.
C19_LatestUtteranceKept ==
  [][\A k \in Ids :
       (k = calls /\ utt[k] \in {"queued", "speaking"} /\ utt'[k] = "cancelled")
         => (calls' # calls \/ text' # text \/ mounted' # mounted)]_vars

\* C20: isLoading and isPlaying are never both true, so exactly one of
\* Loading, Speaking, Finished and Idle is shown.
C20_LoadingXorPlaying == ~(isLoading /\ isPlaying)

\* C20 happens: the onStart of an earlier play arrived while the latest play
\* was loading, and the UI shows Speaking, not Loading.
C20_Witness ==
  /\ calls > 1
  /\ Outstanding(calls)
  /\ log[calls] = <<>>
  /\ \E j \in Ids : j < calls /\ log[j] = <<"start">>
  /\ isPlaying
  /\ ~isLoading

====
